---- MODULE Spec2Model ----
(***************************************************************************)
(* Model of the student score analysis program (one Python source file):   *)
(* main() prints a banner, analyze_student_scores() loads the CSV file and *)
(* aggregates per student, display_results() prints the per-student blocks *)
(* and the class-wide summary, create_ranking() prints the ranking by mean *)
(* and analyze_by_subject() reloads the file and aggregates per subject.   *)
(*                                                                         *)
(* Column names are written in ASCII: name = '名前', date = '日付',        *)
(* subject = '科目', score = 'スコア'; statistics fields: mean = '平均点', *)
(* max = '最高点', min = '最低点', count = 'テスト回数',                   *)
(* values = 'スコア詳細'.                                                  *)
(*                                                                         *)
(* Numbers: a mean rounded to two decimals is held as an integer number of *)
(* hundredths (8.33 is 833).  Dates are ISO date strings in the program,   *)
(* compared lexically; the model holds them as integers in the same order. *)
(***************************************************************************)
EXTENDS Integers, Sequences, FiniteSets, TLC

\* ------------------------------------------------------------------------
\* Bounds of the model and the universe the input file is drawn from.
\* ------------------------------------------------------------------------

MaxRows == 3

Names == {"A", "B"}

Subjects == {"math", "english"}

\* The tests held: each is one subject on one date.
Tests == {<<1, "math">>, <<2, "english">>}

\* Text of a score cell that int() accepts, as a sequence of characters.
ScoreTexts == {<<"5">>, <<"1", "0">>}

\* A well-formed line of the file: the four cells of one record.
GoodLines == {<<n, t[1], t[2], c>> : n \in Names, t \in Tests, c \in ScoreTexts}

\* A line with three cells only (the score cell is absent).
ShortLines == {<<n, t[1], t[2]>> : n \in Names, t \in Tests}

\* Malformed lines.  Loading stops at the first malformed line and nothing
\* of it reaches a result, so one representative per kind is enough: a score
\* that is not a number, an empty score, a line without the score cell.
BadLines == {<<"A", 1, "math", <<"x">>>>, <<"B", 2, "english", <<>>>>, <<"A", 1, "math">>}

FullHeader == <<"name", "date", "subject", "score">>

NoScoreHeader == <<"name", "date", "subject">>

SeqsUpTo(S, n) == UNION {[1..k -> S] : k \in 0..n}

\* The input files: no file at the path; a file with the full header and up
\* to MaxRows lines, well-formed or not; a file whose header (and so whose
\* lines) lacks the score column.
Files ==
    {[exists |-> FALSE, header |-> FullHeader, lines |-> <<>>]}
    \cup {[exists |-> TRUE, header |-> FullHeader, lines |-> l] :
            l \in SeqsUpTo(GoodLines \cup BadLines, MaxRows)}
    \cup {[exists |-> TRUE, header |-> NoScoreHeader, lines |-> l] :
            l \in SeqsUpTo(ShortLines, MaxRows)}

\* ------------------------------------------------------------------------
\* Python built-ins the program uses.
\* ------------------------------------------------------------------------

Range(s) == {s[i] : i \in DOMAIN s}

\* All the orders in which iterating a set may yield its elements.
SetOrders(S) == {o \in [1..Cardinality(S) -> S] : Range(o) = S}

DigitChars == <<"0", "1", "2", "3", "4", "5", "6", "7", "8", "9">>

DigitValue(c) == (CHOOSE i \in DOMAIN DigitChars : DigitChars[i] = c) - 1

RECURSIVE DigitsValue(_)
DigitsValue(t) ==
    IF t = <<>> THEN 0
    ELSE 10 * DigitsValue(SubSeq(t, 1, Len(t) - 1)) + DigitValue(t[Len(t)])

\* int(cell): a cell is [none, v]; None raises TypeError, a text that is not
\* an optional sign followed by decimal digits raises ValueError.
\* (int() also accepts surrounding blanks and underscores between digits;
\* no text of the universe has them.)
int(cell) ==
    IF cell.none THEN [exc |-> "TypeError", value |-> 0]
    ELSE LET t == cell.v
             signed == t # <<>> /\ t[1] \in {"+", "-"}
             body == IF signed THEN Tail(t) ELSE t
             ok == body # <<>> /\ \A i \in DOMAIN body : body[i] \in Range(DigitChars)
         IN  IF ~ok THEN [exc |-> "ValueError", value |-> 0]
             ELSE [exc |-> "none",
                   value |-> IF signed /\ t[1] = "-" THEN 0 - DigitsValue(body)
                             ELSE DigitsValue(body)]

RECURSIVE sum(_)
sum(s) == IF s = <<>> THEN 0 ELSE Head(s) + sum(Tail(s))

RECURSIVE max(_)
max(s) ==
    IF Len(s) = 1 THEN s[1]
    ELSE LET m == max(Tail(s)) IN IF m > Head(s) THEN m ELSE Head(s)

RECURSIVE min(_)
min(s) ==
    IF Len(s) = 1 THEN s[1]
    ELSE LET m == min(Tail(s)) IN IF m < Head(s) THEN m ELSE Head(s)

\* statistics.mean of integers: the exact fraction sum/len, as <<num, den>>.
statistics_mean(s) == <<sum(s), Len(s)>>

\* round2 with the digits after the second decimal cut off, not rounded.
round2_truncating(q) == (100 * q[1]) \div q[2]

\* Rounding of the fraction q to two decimals, in hundredths.  Python rounds
\* the double nearest to q, to the nearest hundredth, an exact half going to
\* the even hundredth.  A fraction of integers with fewer than 40 terms is
\* an exact half only when it is a multiple of 1/8, which a double holds
\* exactly, so rounding the fraction itself gives the same result.
round2(q) ==
    LET n == 100 * q[1]
        f == n \div q[2]
        r == n - f * q[2]
    IN  IF 2 * r < q[2] THEN f
        ELSE IF 2 * r > q[2] THEN f + 1
        ELSE IF f % 2 = 0 THEN f ELSE f + 1

\* csv.DictReader: the cells of a line keyed by the header's columns; a
\* column the line has no cell for reads None.
DictRow(header, line) ==
    [c \in Range(header) |->
        LET i == CHOOSE j \in DOMAIN header : header[j] = c
        IN  IF i <= Len(line) THEN [none |-> FALSE, v |-> line[i]]
            ELSE [none |-> TRUE, v |-> <<>>]]

\* ------------------------------------------------------------------------
\* Loading (analyze_student_scores and analyze_by_subject read the file the
\* same way).
\* ------------------------------------------------------------------------

\* The loop over the reader: every row becomes a record; the first row that
\* lacks a column (KeyError) or whose score int() rejects ends the loop with
\* that exception.
RECURSIVE read_rows(_, _, _)
read_rows(header, lines, data) ==
    IF lines = <<>> THEN [exc |-> "none", data |-> data]
    ELSE LET row == DictRow(header, Head(lines))
         IN  IF \E c \in Range(FullHeader) : c \notin DOMAIN row
             THEN [exc |-> "KeyError", data |-> data]
             ELSE LET score == int(row["score"])
                  IN  IF score.exc # "none" THEN [exc |-> score.exc, data |-> data]
                      ELSE read_rows(header, Tail(lines),
                               Append(data, [name |-> row["name"].v,
                                             date |-> row["date"].v,
                                             subject |-> row["subject"].v,
                                             score |-> score.value]))

\* open() raises FileNotFoundError when the path names no file.
load(csv_file) ==
    IF ~csv_file.exists THEN [exc |-> "FileNotFoundError", data |-> <<>>]
    ELSE read_rows(csv_file.header, csv_file.lines, <<>>)

\* list(set(...)): the distinct elements of S, in the order the hash table
\* yields them (hash_order is any order of the universe).
list_set(S, hash_order) == SelectSeq(hash_order, LAMBDA x : x \in S)

\* [row['スコア'] for row in data if row[column] == key]
RECURSIVE scores_where(_, _, _)
scores_where(data, column, key) ==
    IF data = <<>> THEN <<>>
    ELSE (IF Head(data)[column] = key THEN <<Head(data).score>> ELSE <<>>)
         \o scores_where(Tail(data), column, key)

\* ------------------------------------------------------------------------
\* analyze_student_scores
\* ------------------------------------------------------------------------

\* student_scores with the matching scores in reverse order.
RECURSIVE student_scores_reversed(_, _)
student_scores_reversed(data, student) ==
    IF data = <<>> THEN <<>>
    ELSE student_scores_reversed(Tail(data), student)
         \o (IF Head(data).name = student THEN <<Head(data).score>> ELSE <<>>)

\* student_scores without the filter on the name.
student_scores_unfiltered(data, student) == [i \in DOMAIN data |-> data[i].score]

student_scores(data, student) == scores_where(data, "name", student)

\* student_stats with the maximum and the minimum exchanged.
student_stats_swapped(scores) ==
    [mean |-> round2(statistics_mean(scores)),
     max |-> min(scores),
     min |-> max(scores),
     count |-> Len(scores),
     values |-> scores]

\* The dictionary stored for one student.
student_stats(scores) ==
    [mean |-> round2(statistics_mean(scores)),
     max |-> max(scores),
     min |-> min(scores),
     count |-> Len(scores),
     values |-> scores]

\* The value None and a dictionary, in insertion order, as one shape.
None == [none |-> TRUE, items |-> <<>>]

Dict(items) == [none |-> FALSE, items |-> items]

\* Truth value of `results` in `if results:` / `if not results:`.
truthy(results) == ~results.none /\ results.items # <<>>

\* except FileNotFoundError: report and return None.
except_FileNotFoundError(printed) ==
    [ret |-> None,
     out |-> printed \o <<[kind |-> "error", exc |-> "FileNotFoundError"]>>,
     raised |-> <<[exc |-> "FileNotFoundError", at |-> "open"]>>,
     propagated |-> FALSE]

\* except_Exception that raises the exception again after reporting it.
except_Exception_reraise(exc, at, printed) ==
    [ret |-> None,
     out |-> printed \o <<[kind |-> "error", exc |-> exc]>>,
     raised |-> <<[exc |-> exc, at |-> at]>>,
     propagated |-> TRUE]

\* except Exception as e: report e and return None.
except_Exception(exc, at, printed) ==
    [ret |-> None,
     out |-> printed \o <<[kind |-> "error", exc |-> exc]>>,
     raised |-> <<[exc |-> exc, at |-> at]>>,
     propagated |-> FALSE]

\* The whole function: what it returns, what it prints, what was raised
\* inside it, and whether an exception left it.
analyze_student_scores(csv_file, hash_order) ==
    LET l == load(csv_file)
    IN  IF l.exc = "FileNotFoundError" THEN except_FileNotFoundError(<<>>)
        ELSE IF l.exc # "none" THEN except_Exception(l.exc, "load", <<>>)
        ELSE
          LET data == l.data
              students == list_set({data[i].name : i \in DOMAIN data}, hash_order)
              subjects == {data[i].subject : i \in DOMAIN data}
              dates == [i \in DOMAIN data |-> data[i].date]
              overview == <<[kind |-> "overview", total |-> Len(data),
                             students |-> Len(students),
                             subjects |-> Cardinality(subjects)]>>
          IN  \* min(dates) of an empty list raises ValueError, after the
              \* three counts have been printed.
              IF dates = <<>> THEN except_Exception("ValueError", "min(dates)", overview)
              ELSE [ret |-> Dict([i \in DOMAIN students |->
                                   [key |-> students[i],
                                    stats |-> student_stats(student_scores(data, students[i]))]]),
                    out |-> overview \o <<[kind |-> "period", from |-> min(dates),
                                           to |-> max(dates)]>>,
                    raised |-> <<>>,
                    propagated |-> FALSE]

\* ------------------------------------------------------------------------
\* display_results
\* ------------------------------------------------------------------------

all_max_scores(results) == [i \in DOMAIN results.items |-> results.items[i].stats.max]

all_min_scores(results) == [i \in DOMAIN results.items |-> results.items[i].stats.min]

\* class_max taken over the students' minima.
class_max_of_minima(results) == max(all_min_scores(results))

class_max(results) == max(all_max_scores(results))

class_min(results) == min(all_min_scores(results))

\* What display_results prints: nothing for a falsy `results`; otherwise the
\* title, one block per student in the dictionary's order and the class-wide
\* summary.  (The summary's class mean, a mean of the rounded means, is not
\* part of the model: nothing stated below reads it.)
display_results(results) ==
    IF ~truthy(results) THEN <<>>
    ELSE <<[kind |-> "title"]>>
         \o [i \in DOMAIN results.items |->
               [kind |-> "student", no |-> i, key |-> results.items[i].key,
                stats |-> results.items[i].stats]]
         \o <<[kind |-> "class", max |-> class_max(results), min |-> class_min(results)]>>

\* ------------------------------------------------------------------------
\* create_ranking
\* ------------------------------------------------------------------------

\* sorted_by_mean_reverse without reverse=True: ascending.
RECURSIVE sorted_by_mean_ascending(_)
sorted_by_mean_ascending(items) ==
    IF items = <<>> THEN <<>>
    ELSE LET pre == sorted_by_mean_ascending(SubSeq(items, 1, Len(items) - 1))
             x == items[Len(items)]
             k == Cardinality({i \in DOMAIN pre : pre[i].stats.mean <= x.stats.mean})
         IN  SubSeq(pre, 1, k) \o <<x>> \o SubSeq(pre, k + 1, Len(pre))

\* sorted(results.items(), key=mean, reverse=True): a stable sort, so items
\* of equal mean keep the dictionary's order.
RECURSIVE sorted_by_mean_reverse(_)
sorted_by_mean_reverse(items) ==
    IF items = <<>> THEN <<>>
    ELSE LET pre == sorted_by_mean_reverse(SubSeq(items, 1, Len(items) - 1))
             x == items[Len(items)]
             k == Cardinality({i \in DOMAIN pre : pre[i].stats.mean >= x.stats.mean})
         IN  SubSeq(pre, 1, k) \o <<x>> \o SubSeq(pre, k + 1, Len(pre))

medal(rank) ==
    IF rank = 1 THEN "gold" ELSE IF rank = 2 THEN "silver"
    ELSE IF rank = 3 THEN "bronze" ELSE "number"

\* What create_ranking builds and prints: nothing for a falsy `results`.
create_ranking(results) ==
    IF ~truthy(results) THEN [sorted_students |-> <<>>, out |-> <<>>]
    ELSE LET sorted_students == sorted_by_mean_reverse(results.items)
         IN  [sorted_students |-> sorted_students,
              out |-> <<[kind |-> "ranking_title"]>>
                      \o [i \in DOMAIN sorted_students |->
                            [kind |-> "rank", no |-> i, medal |-> medal(i),
                             key |-> sorted_students[i].key,
                             mean |-> sorted_students[i].stats.mean]]]

\* ------------------------------------------------------------------------
\* analyze_by_subject
\* ------------------------------------------------------------------------

subject_scores(data, subject) == scores_where(data, "subject", subject)

\* The four lines printed for one subject (the mean is formatted with two
\* decimals, which rounds as round() does).
subject_block(subject, scores) ==
    [kind |-> "subject", key |-> subject,
     mean |-> round2(statistics_mean(scores)),
     max |-> max(scores),
     min |-> min(scores),
     count |-> Len(scores)]

\* The whole function: any exception, FileNotFoundError included, is caught
\* and reported.
analyze_by_subject(csv_file, hash_order) ==
    LET l == load(csv_file)
    IN  IF l.exc # "none"
        THEN [out |-> <<[kind |-> "subject_error", exc |-> l.exc]>>,
              raised |-> <<[exc |-> l.exc, at |-> "load"]>>]
        ELSE LET data == l.data
                 subjects == list_set({data[i].subject : i \in DOMAIN data}, hash_order)
             IN  [out |-> <<[kind |-> "subject_title"]>>
                          \o [i \in DOMAIN subjects |->
                                subject_block(subjects[i], subject_scores(data, subjects[i]))],
                  raised |-> <<>>]

\* ------------------------------------------------------------------------
\* main: the state of one run.
\* ------------------------------------------------------------------------

VARIABLES
    csv_file,         \* the file at the fixed path, as the run finds it
    pc,               \* the statement of main that runs next
    results,          \* main's `results`
    sorted_students,  \* the ranking create_ranking built
    out,              \* everything printed so far, in order
    calls,            \* the functions main has called, in order
    raised            \* the exceptions raised so far, in order

vars == <<csv_file, pc, results, sorted_students, out, calls, raised>>

\* main_next without the test `if results:`.
main_next_unguarded(at, res) ==
    IF at = "banner" THEN "analyze_student_scores"
    ELSE IF at = "analyze_student_scores" THEN "display_results"
    ELSE IF at = "display_results" THEN "create_ranking"
    ELSE IF at = "create_ranking" THEN "analyze_by_subject"
    ELSE "done"

\* main_next with the ranking shown before the results.
main_next_ranking_first(at, res) ==
    IF at = "banner" THEN "analyze_student_scores"
    ELSE IF at = "analyze_student_scores"
         THEN (IF truthy(res) THEN "create_ranking" ELSE "done")
    ELSE IF at = "create_ranking" THEN "display_results"
    ELSE IF at = "display_results" THEN "analyze_by_subject"
    ELSE "done"

\* main's control flow: the statement after the one at `at`, given the value
\* `results` has after it.
main_next(at, res) ==
    IF at = "banner" THEN "analyze_student_scores"
    ELSE IF at = "analyze_student_scores"
         THEN (IF truthy(res) THEN "display_results" ELSE "done")
    ELSE IF at = "display_results" THEN "create_ranking"
    ELSE IF at = "create_ranking" THEN "analyze_by_subject"
    ELSE "done"

Init ==
    /\ csv_file \in Files
    /\ pc = "banner"
    /\ results = None
    /\ sorted_students = <<>>
    /\ out = <<>>
    /\ calls = <<>>
    /\ raised = <<>>

\* The two banner lines main prints first.
Banner ==
    /\ pc = "banner"
    /\ out' = Append(out, [kind |-> "banner"])
    /\ pc' = main_next(pc, results)
    /\ UNCHANGED <<csv_file, results, sorted_students, calls, raised>>

\* results = analyze_student_scores(csv_file); an exception that leaves the
\* function ends main with it.
AnalyzeStudentScores ==
    /\ pc = "analyze_student_scores"
    /\ \E hash_order \in SetOrders(Names) :
         LET r == analyze_student_scores(csv_file, hash_order)
         IN  /\ results' = r.ret
             /\ out' = out \o r.out
             /\ raised' = raised \o r.raised
             /\ pc' = IF r.propagated THEN "crashed" ELSE main_next(pc, r.ret)
    /\ calls' = Append(calls, "analyze_student_scores")
    /\ UNCHANGED <<csv_file, sorted_students>>

DisplayResults ==
    /\ pc = "display_results"
    /\ out' = out \o display_results(results)
    /\ calls' = Append(calls, "display_results")
    /\ pc' = main_next(pc, results)
    /\ UNCHANGED <<csv_file, results, sorted_students, raised>>

CreateRanking ==
    /\ pc = "create_ranking"
    /\ LET r == create_ranking(results)
       IN  /\ sorted_students' = r.sorted_students
           /\ out' = out \o r.out
    /\ calls' = Append(calls, "create_ranking")
    /\ pc' = main_next(pc, results)
    /\ UNCHANGED <<csv_file, results, raised>>

AnalyzeBySubject ==
    /\ pc = "analyze_by_subject"
    /\ \E hash_order \in SetOrders(Subjects) :
         LET r == analyze_by_subject(csv_file, hash_order)
         IN  /\ out' = out \o r.out
             /\ raised' = raised \o r.raised
    /\ calls' = Append(calls, "analyze_by_subject")
    /\ pc' = main_next(pc, results)
    /\ UNCHANGED <<csv_file, results, sorted_students>>

Next ==
    \/ Banner
    \/ AnalyzeStudentScores
    \/ DisplayResults
    \/ CreateRanking
    \/ AnalyzeBySubject

Spec == Init /\ [][Next]_vars

\* ------------------------------------------------------------------------
\* Properties.
\* ------------------------------------------------------------------------

\* The records of the file, when it loads.
Data == load(csv_file).data

Called(f) == f \in Range(calls)

\* The positions of the records whose column has the value key.
Matching(d, column, key) == {j \in DOMAIN d : d[j][column] = key}

RECURSIVE ScoreSum(_, _)
ScoreSum(d, idx) ==
    IF idx = {} THEN 0
    ELSE LET j == CHOOSE j \in idx : TRUE IN d[j].score + ScoreSum(d, idx \ {j})

RECURSIVE CountSum(_)
CountSum(s) == IF s = <<>> THEN 0 ELSE Head(s).count + CountSum(Tail(s))

Abs(x) == IF x < 0 THEN 0 - x ELSE x

\* The student names of a returned dictionary are those of the records, each once.
KeysAreTheStudents(d) ==
    /\ {results.items[i].key : i \in DOMAIN results.items}
         = {d[j].name : j \in DOMAIN d}
    /\ \A i, k \in DOMAIN results.items :
         results.items[i].key = results.items[k].key => i = k

\* C1: in the dictionary analyze_student_scores returns, every student of
\* the records has an entry whose count is the number of the student's
\* records, whose max is the largest and whose min is the smallest of the
\* scores of those records.
C1_CountMaxMin ==
    LET d == Data IN
    ~results.none =>
        /\ KeysAreTheStudents(d)
        /\ \A i \in DOMAIN results.items :
             LET st == results.items[i].stats
                 idx == Matching(d, "name", results.items[i].key)
             IN  /\ st.count = Cardinality(idx)
                 /\ \E j \in idx : d[j].score = st.max
                 /\ \A j \in idx : d[j].score <= st.max
                 /\ \E j \in idx : d[j].score = st.min
                 /\ \A j \in idx : d[j].score >= st.min

\* A student with several records of different scores has been aggregated.
C1_Witness ==
    /\ ~results.none
    /\ \E i \in DOMAIN results.items :
         /\ results.items[i].stats.count >= 2
         /\ results.items[i].stats.max > results.items[i].stats.min

\* C2: the mean returned for a student is the average of the student's
\* scores rounded to two decimals: it is a whole number of hundredths at
\* most half a hundredth away from sum/count, and for a single record it is
\* that score exactly.
C2_MeanRounded ==
    LET d == Data IN
    ~results.none =>
        \A i \in DOMAIN results.items :
            LET st == results.items[i].stats
                idx == Matching(d, "name", results.items[i].key)
                n == Cardinality(idx)
            IN  /\ n > 0
                /\ 2 * Abs(100 * ScoreSum(d, idx) - st.mean * n) <= n
                /\ n = 1 => \A j \in idx : st.mean = 100 * d[j].score

\* A mean that had to be rounded up (20/3 = 6.67) has been returned.
C2_Witness ==
    LET d == Data IN
    /\ ~results.none
    /\ \E i \in DOMAIN results.items :
         LET st == results.items[i].stats
             idx == Matching(d, "name", results.items[i].key)
         IN  st.mean * Cardinality(idx) > 100 * ScoreSum(d, idx)

\* C3: the ranking create_ranking builds holds the entries of the dictionary,
\* each once, ordered by mean descending, and is printed in that order.
C3_RankingDescending ==
    Called("create_ranking") =>
        /\ Len(sorted_students) = Len(results.items)
        /\ Range(sorted_students) = Range(results.items)
        /\ \A i \in 1..(Len(sorted_students) - 1) :
             sorted_students[i].stats.mean >= sorted_students[i + 1].stats.mean
        /\ LET ranks == SelectSeq(out, LAMBDA o : o.kind = "rank")
           IN  /\ Len(ranks) = Len(sorted_students)
               /\ \A i \in DOMAIN ranks :
                    /\ ranks[i].key = sorted_students[i].key
                    /\ ranks[i].mean = sorted_students[i].stats.mean

\* A ranking was built from a dictionary whose first entry has the lower mean.
C3_Witness ==
    /\ Called("create_ranking")
    /\ Len(results.items) = 2
    /\ results.items[1].stats.mean < results.items[2].stats.mean

\* C4: the class maximum display_results prints is at least every student's
\* max and the class minimum is at most every student's min.
C4_ClassExtremes ==
    \A k \in DOMAIN out :
        out[k].kind = "class" =>
            \A i \in DOMAIN results.items :
                /\ out[k].max >= results.items[i].stats.max
                /\ out[k].min <= results.items[i].stats.min

\* The summary was printed for two students with different maxima and minima.
C4_Witness ==
    /\ \E k \in DOMAIN out : out[k].kind = "class"
    /\ \E i, j \in DOMAIN results.items :
         /\ results.items[i].stats.max > results.items[j].stats.max
         /\ results.items[i].stats.min > results.items[j].stats.min

\* The file exists and has a line that is not a well-formed record.
Malformed == csv_file.exists /\ \E i \in DOMAIN csv_file.lines : csv_file.lines[i] \notin GoodLines

Kinds(o) == [i \in DOMAIN o |-> o[i].kind]

\* C5 as stated: the error a malformed record raises while loading leaves
\* analyze_student_scores and reaches its caller.
C5_MalformedPropagates ==
    (Malformed /\ Called("analyze_student_scores")) => pc = "crashed"

\* C5 as amended: the error a malformed record raises while loading is
\* caught inside analyze_student_scores, which reports it and returns None;
\* main then ends normally having printed the banner and the report only.
C5_MalformedCaught ==
    (Malformed /\ Called("analyze_student_scores")) =>
        /\ pc = "done"
        /\ results = None
        /\ Len(raised) = 1
        /\ raised[1].at = "load"
        /\ raised[1].exc \in {"ValueError", "TypeError", "KeyError"}
        /\ Kinds(out) = <<"banner", "error">>
        /\ out[2].exc = raised[1].exc
        /\ calls = <<"analyze_student_scores">>

\* A file whose last line only is malformed has been analyzed.
C5_Witness ==
    /\ Called("analyze_student_scores")
    /\ csv_file.header = FullHeader
    /\ Len(csv_file.lines) = 3
    /\ csv_file.lines[1] \in GoodLines
    /\ csv_file.lines[2] \in GoodLines
    /\ csv_file.lines[3] \notin GoodLines

\* C6: when no file is at the path, analyze_student_scores reports the
\* FileNotFoundError and returns None, and main ends having run neither
\* display_results nor create_ranking nor analyze_by_subject and having
\* printed the banner and the report only.
C6_FileNotFoundAborts ==
    (~csv_file.exists /\ Called("analyze_student_scores")) =>
        /\ pc = "done"
        /\ results = None
        /\ calls = <<"analyze_student_scores">>
        /\ Kinds(out) = <<"banner", "error">>
        /\ out[2].exc = "FileNotFoundError"

\* The run over a missing file has ended.
C6_Witness == ~csv_file.exists /\ pc = "done" /\ Called("analyze_student_scores")

\* The file exists, has the full header, and has no record.
EmptyInput == csv_file.exists /\ csv_file.header = FullHeader /\ csv_file.lines = <<>>

\* C7: on a file with a header and no record, no mean, max or min of an
\* empty sequence is evaluated and left to fail, and no per-student,
\* class-wide, ranking or per-subject output is produced.
C7_EmptyInputNoRawFailure ==
    EmptyInput =>
        /\ \A i \in DOMAIN raised : raised[i].at # "min(dates)"
        /\ \A k \in DOMAIN out : out[k].kind \notin {"student", "class", "rank", "subject"}

\* C8: the values returned for a student are the scores of the student's
\* records and no others, in the order of the records.
C8_ValuesInInputOrder ==
    LET d == Data IN
    ~results.none =>
        \A i \in DOMAIN results.items :
            LET values == results.items[i].stats.values
                idx == Matching(d, "name", results.items[i].key)
            IN  /\ Len(values) = Cardinality(idx)
                /\ \A j \in idx :
                     values[Cardinality({k \in idx : k <= j})] = d[j].score

\* A student's two different scores, with another student's record between.
C8_Witness ==
    LET d == Data IN
    /\ ~results.none
    /\ Len(d) = 3
    /\ d[1].name = d[3].name
    /\ d[1].name # d[2].name
    /\ d[1].score # d[3].score

\* The phase of the output an item belongs to.
PhaseOf(kind) ==
    IF kind \in {"overview", "period"} THEN "a"
    ELSE IF kind = "student" THEN "b"
    ELSE IF kind = "class" THEN "c"
    ELSE IF kind = "rank" THEN "d"
    ELSE IF kind \in {"subject", "subject_error"} THEN "e"
    ELSE "-"

RECURSIVE Collapse(_)
Collapse(s) ==
    IF Len(s) <= 1 THEN s
    ELSE IF s[1] = s[2] THEN Collapse(Tail(s))
    ELSE <<s[1]>> \o Collapse(Tail(s))

\* The phases of the output so far, each maximal run of one phase once.
Phases == Collapse(SelectSeq([i \in DOMAIN out |-> PhaseOf(out[i].kind)], LAMBDA p : p # "-"))

AllPhases == <<"a", "b", "c", "d", "e">>

\* C9: the output phases occur in the order summary counts, per-student
\* blocks, class-wide summary, ranking, per-subject blocks, each once; a run
\* that got a non-empty dictionary ends with all five; and the phases after
\* the summary counts occur only if the dictionary is non-empty.
C9_PhaseOrder ==
    /\ Len(Phases) <= Len(AllPhases)
    /\ Phases = SubSeq(AllPhases, 1, Len(Phases))
    /\ (pc = "done" /\ truthy(results)) =>
          /\ Phases = AllPhases
          /\ calls = <<"analyze_student_scores", "display_results",
                       "create_ranking", "analyze_by_subject">>
          /\ \A k \in DOMAIN out : out[k].kind \notin {"error", "subject_error"}
    /\ Len(Phases) >= 2 => truthy(results)

\* A run over two students and two subjects has ended.
C9_Witness ==
    /\ pc = "done"
    /\ truthy(results)
    /\ Len(results.items) = 2
    /\ Len(SelectSeq(out, LAMBDA o : o.kind = "subject")) = 2

\* C10: every record is in one student's group and in one subject's group:
\* the counts of the returned dictionary add up to the number of records,
\* and so do the counts analyze_by_subject prints.
C10_GroupsPartition ==
    LET d == Data IN
    /\ ~results.none =>
          /\ KeysAreTheStudents(d)
          /\ CountSum([i \in DOMAIN results.items |-> results.items[i].stats]) = Len(d)
    /\ Called("analyze_by_subject") =>
          LET blocks == SelectSeq(out, LAMBDA o : o.kind = "subject")
          IN  /\ {blocks[i].key : i \in DOMAIN blocks} = {d[j].subject : j \in DOMAIN d}
              /\ \A i, k \in DOMAIN blocks : blocks[i].key = blocks[k].key => i = k
              /\ \A i \in DOMAIN blocks :
                   blocks[i].count = Cardinality(Matching(d, "subject", blocks[i].key))
              /\ CountSum(blocks) = Len(d)

\* Three records of two students in two subjects have been grouped both ways.
C10_Witness ==
    LET d == Data IN
    /\ Called("analyze_by_subject")
    /\ Len(d) = 3
    /\ Len(results.items) = 2
    /\ Len(SelectSeq(out, LAMBDA o : o.kind = "subject")) = 2

====
